---- MODULE Spec2Model ----
(***************************************************************************)
(* A model of the RedCaps downloader's annotation pipeline: the filter     *)
(* stages and remove (redcaps/filter.py), merge (redcaps/merge.py) and the *)
(* identifier harvester (redcaps/downloaders/id_downloader.py).            *)
(*                                                                         *)
(* Every command is one action: it reads the annotation files, acts, and   *)
(* writes them back, as the command does in one run of the program.        *)
(***************************************************************************)
EXTENDS Integers, Sequences, FiniteSets, TLC

VARIABLES
    fs,       \* the annotation files: path -> store, or Absent
    images,   \* the image files on disk, a set of image paths
    last,     \* the last command run: what it was given and how it ended
    prev,     \* the merge command run before the last one, if any
    nruns,    \* per filter stage, how often it has rewritten the store
    upstream, \* the search endpoint's posts: second -> number created in it
    download, \* RedditIdDownloader.download: its arguments and locals
    stack,    \* the calls of _download_worker in progress, innermost last
    sent,     \* the windows queried so far
    resolve,  \* RedditInfoDownloader.download: its arguments and locals
    imgur,    \* the clock and the album requests made and answered
    text,     \* a string, the conversions applied to it and their results
    printed,  \* what validate has printed, and the files when it was called
    corrupt,  \* the image ids whose file, where it exists, cannot be read
    job       \* the download command run: its arguments, tasks and outcome

storeVars == <<fs, images, last, prev, nruns>>
harvestVars == <<upstream, download, stack, sent>>
resolveVars == <<resolve, imgur>>
textVars == <<text>>
validateVars == <<printed>>
diskVars == <<corrupt>>
jobVars == <<job>>

\* What the commands on annotation files leave alone, what the harvester
\* does, and what the resolver does.
exceptStore ==
    <<harvestVars, resolveVars, textVars, validateVars, diskVars, jobVars>>
exceptHarvest ==
    <<storeVars, resolveVars, textVars, validateVars, diskVars, jobVars>>
exceptResolve ==
    <<storeVars, harvestVars, textVars, validateVars, diskVars, jobVars>>
exceptText ==
    <<storeVars, harvestVars, resolveVars, validateVars, diskVars, jobVars>>
exceptValidate == <<harvestVars, resolveVars, textVars, diskVars, jobVars>>
vars ==
    <<fs, images, last, prev, nruns, upstream, download, stack, sent,
      resolve, imgur, text, printed, corrupt, job>>

----------------------------------------------------------------------------
(* Bounds of the model.                                                    *)

\* The longest annotation list of the store the filter stages run on.
MaxAnns == 3

\* The most records the annotation files given to merge hold in total.
MaxRecords == 2

\* The most records three stores merged in two steps hold in total.
MaxAssocRecords == 3

\* Time runs in ticks, the resolution of datetime and timedelta (Python's is
\* the microsecond): TicksPerSec ticks to the second, DaySec seconds to the
\* day (to the 24 hours of the code).
TicksPerSec == 4
DaySec == 4

\* The most seconds in which the upstream has posts.
MaxBusy == 2

\* The most failed requests before the endpoint answers a query.
MaxRetries == 1

\* The most identifiers given to the resolver.
MaxBatch == 2

\* The longest caption given to _sanitize_caption.
MaxCaption == 4

\* The longest of the short post identifiers in the URLs given to
\* _fix_image_url.
MaxIdLen == 2

\* The annotation file paths, in lexicographic order: path i is PathNames[i].
PathNames == <<"a.json", "b.json", "c.json">>
Paths == DOMAIN PathNames

ImageIds == {"p1", "p2"}
Utcs == {1, 2}

Absent == [absent |-> TRUE]

----------------------------------------------------------------------------
(* Annotation records and stores.                                          *)

AnnotationRecord == [image_id : ImageIds, created_utc : Utcs]

WORDS_REPO == "LDNOOBW/List-of-Dirty-Naughty-Obscene-and-Otherwise-Bad-Words"
NSFW_REPO == "gantman/nsfw_model"
FACES_REPO == "redcaps-dataset/pytorch-retinaface"

FilterKeys == {"word_filter", "nsfw_filter", "face_filter"}

\* The empty mapping: an info header with no filter marker.
NoFilters == [k \in {} |-> 0]

\* os.path.join(images_dirpath, ann["subreddit"], f"{image_id}.jpg")
ImagePath(id) == <<"images", "subreddit", id, ".jpg">>

\* os.path.basename(_path).replace(".jpg", "")
IdOfPath(path) == path[3]

\* All sequences over S of length at most n.
SeqsUpTo(S, n) == UNION {[1..k -> S] : k \in 0..n}

\* s without its last element.
Front(s) == SubSeq(s, 1, Len(s) - 1)

Last(s) == s[Len(s)]

----------------------------------------------------------------------------
(* Python's dict, as the sequence of its values in insertion order, and    *)
(* sorted().                                                               *)

\* {ann["image_id"]: ann for ann in annotations}: a key keeps the position
\* of its first occurrence and the value of its last.
RECURSIVE DictOf(_)
DictOf(annotations) ==
    IF annotations = <<>> THEN <<>>
    ELSE LET d == DictOf(Front(annotations))
             x == Last(annotations)
             at == {i \in DOMAIN d : d[i].image_id = x.image_id}
         IN IF at = {} THEN Append(d, x)
            ELSE [i \in DOMAIN d |-> IF i \in at THEN x ELSE d[i]]

HasKey(d, id) == \E i \in DOMAIN d : d[i].image_id = id

\* d.pop(id), for a key d has.
Pop(d, id) ==
    LET i == CHOOSE j \in DOMAIN d : d[j].image_id = id
    IN SubSeq(d, 1, i - 1) \o SubSeq(d, i + 1, Len(d))

\* x put into the sorted list s behind every element that is not larger.
InsertByUtc(s, x) ==
    LET n == Cardinality({i \in DOMAIN s : s[i].created_utc =< x.created_utc})
    IN SubSeq(s, 1, n) \o <<x>> \o SubSeq(s, n + 1, Len(s))

\* sorted(annotations, key=lambda k: k["created_utc"]): a stable sort.
InListOrder(annotations) == annotations
RECURSIVE SortedByUtc(_)
SortedByUtc(annotations) ==
    IF annotations = <<>> THEN <<>>
    ELSE InsertByUtc(SortedByUtc(Front(annotations)), Last(annotations))

----------------------------------------------------------------------------
(* filter.py: _remove_images_and_annotations.                              *)

\* The loop over ids_to_remove: pops each id from the map and unlinks its
\* image; a missing id raises KeyError and leaves the loop where it is.
RECURSIVE RemoveLoop(_, _, _)
RemoveLoop(annotations_map, ids_to_remove, imgs) ==
    IF ids_to_remove = <<>>
    THEN [ok |-> TRUE, map |-> annotations_map, images |-> imgs]
    ELSE LET _id == Head(ids_to_remove)
         IN IF ~HasKey(annotations_map, _id)
            THEN [ok |-> FALSE, map |-> annotations_map, images |-> imgs]
            ELSE RemoveLoop(Pop(annotations_map, _id), Tail(ids_to_remove),
                            imgs \ {ImagePath(_id)})

\* The whole function: the records left, sorted, or the KeyError.
RemoveImagesAndAnnotations(annotations, ids_to_remove, imgs) ==
    LET r == RemoveLoop(DictOf(annotations), ids_to_remove, imgs)
    IN [ok |-> r.ok,
        annotations |-> IF r.ok THEN SortedByUtc(r.map) ELSE annotations,
        images |-> r.images]

----------------------------------------------------------------------------
(* filter.py: the three filter stages.                                     *)

\* Detector outputs and thresholds, in hundredths: the NSFW detector's
\* porn + hentai sum per image, and the number of face boxes per image.
Scores == {10, 70}
Thresholds == {50, 90}
BoxCounts == {0, 1}

\* The state of `last` before any command has run.
NoCommand ==
    [cmd |-> "none", outcome |-> "none", called |-> FALSE,
     argv |-> [paths |-> <<>>, save_to |-> 0, delete_old |-> FALSE],
     pre |-> <<>>, preImages |-> {}]

\* The arguments of a filter stage run on the file at path p.
StageArgv(p) == [paths |-> <<p>>, save_to |-> p, delete_old |-> FALSE]

\* "word_filter" in ANNOTATIONS["info"], and the same for the other stages.
WordFiltered(info, key) == "word_filter" \in DOMAIN info.filters
AlreadyFiltered(info, key) == key \in DOMAIN info.filters

\* ANNOTATIONS["info"][key] = marker
OnlyMarker(info, key, marker) ==
    [info EXCEPT !.filters = [k \in {key} |-> marker]]
WithMarker(info, key, marker) ==
    [info EXCEPT !.filters =
        [k \in DOMAIN info.filters \cup {key} |->
            IF k = key THEN marker ELSE info.filters[k]]]

\* The image ids of the annotations at the flagged positions, in list order.
RECURSIVE IdsWhere(_, _)
IdsWhere(annotations, flagged) ==
    IF annotations = <<>> THEN <<>>
    ELSE LET rest == IdsWhere(Front(annotations), flagged)
         IN IF Len(annotations) \in flagged
            THEN Append(rest, Last(annotations).image_id)
            ELSE rest

\* The image paths of the annotations whose image file exists, in list order.
RECURSIVE ExistingImagePaths(_, _)
ExistingImagePaths(annotations, imgs) ==
    IF annotations = <<>> THEN <<>>
    ELSE LET rest == ExistingImagePaths(Front(annotations), imgs)
             _path == ImagePath(Last(annotations).image_id)
         IN IF _path \in imgs THEN Append(rest, _path) ELSE rest

\* [basename(_path) for _path in image_paths if the prediction flags it]
RECURSIVE IdsOfFlaggedPaths(_, _)
IdsOfFlaggedPaths(image_paths, flaggedIds) ==
    IF image_paths = <<>> THEN <<>>
    ELSE LET rest == IdsOfFlaggedPaths(Front(image_paths), flaggedIds)
             _id == IdOfPath(Last(image_paths))
         IN IF _id \in flaggedIds THEN Append(rest, _id) ELSE rest

\* The detector opens every path it is given; a file that cannot be read
\* makes it raise.
DetectorRaises(image_paths) ==
    \E i \in DOMAIN image_paths : IdOfPath(image_paths[i]) \in corrupt

\* A stage whose detector raised: nothing is removed or written.
StageRaises(p, cmd, argv) ==
    /\ last' = [cmd |-> cmd, outcome |-> "raised", called |-> TRUE,
                argv |-> argv, pre |-> fs, preImages |-> images]
    /\ UNCHANGED <<fs, images, nruns, prev>>
    /\ UNCHANGED exceptStore

\* A stage that found its marker: sys.exit(0) before anything is loaded.
StageAborts(p, cmd, argv) ==
    /\ last' = [cmd |-> cmd, outcome |-> "aborted", called |-> FALSE,
                argv |-> argv, pre |-> fs, preImages |-> images]
    /\ UNCHANGED <<fs, images, nruns, prev>>
    /\ UNCHANGED exceptStore

\* The tail shared by the stages: remove the flagged records and their
\* images, add the marker and write the file. A KeyError in remove ends the
\* command with the images unlinked so far gone and the file not written.
StageRemoves(p, cmd, argv, key, ids_to_remove, marker) ==
    LET ANNOTATIONS == fs[p]
        r == RemoveImagesAndAnnotations(ANNOTATIONS.annotations,
                                        ids_to_remove, images)
    IN /\ images' = r.images
       /\ IF r.ok
          THEN /\ fs' = [fs EXCEPT ![p] =
                          [info |-> WithMarker(ANNOTATIONS.info, key, marker),
                           annotations |-> r.annotations]]
               /\ nruns' = [nruns EXCEPT ![key] = @ + 1]
          ELSE UNCHANGED <<fs, nruns>>
       /\ last' = [cmd |-> cmd,
                   outcome |-> IF r.ok THEN "saved" ELSE "KeyError",
                   called |-> TRUE, argv |-> argv,
                   pre |-> fs, preImages |-> images]
       /\ UNCHANGED prev
       /\ UNCHANGED exceptStore

\* hits: the positions of the annotations whose caption holds a blocklist
\* word, as the downloaded blocklist decides.
filter_words(p, hits) ==
    /\ fs[p] # Absent
    /\ hits \subseteq DOMAIN fs[p].annotations
    /\ IF AlreadyFiltered(fs[p].info, "word_filter")
       THEN StageAborts(p, "filter_words", StageArgv(p))
       ELSE LET ids_to_remove == IdsWhere(fs[p].annotations, hits)
            IN StageRemoves(p, "filter_words", StageArgv(p), "word_filter",
                            ids_to_remove,
                            [num_removed |-> Len(ids_to_remove),
                             model |-> WORDS_REPO])

\* predictions: the detector's porn + hentai sum for each image.
filter_nsfw(p, predictions, confidence_threshold) ==
    /\ fs[p] # Absent
    /\ IF AlreadyFiltered(fs[p].info, "nsfw_filter")
       THEN StageAborts(p, "filter_nsfw", StageArgv(p))
       ELSE LET image_paths == ExistingImagePaths(fs[p].annotations, images)
                ids_to_remove ==
                    IdsOfFlaggedPaths(image_paths,
                        {i \in ImageIds : predictions[i] > confidence_threshold})
            IN IF DetectorRaises(image_paths)
               THEN StageRaises(p, "filter_nsfw", StageArgv(p))
               ELSE StageRemoves(p, "filter_nsfw", StageArgv(p), "nsfw_filter",
                                   ids_to_remove,
                                   [num_removed |-> Len(ids_to_remove),
                                    model |-> NSFW_REPO,
                                    confidence_threshold |-> confidence_threshold])

\* predictions: the number of face boxes the detector reports for each image
\* at the threshold it is given.
filter_faces(p, predictions, confidence_threshold) ==
    /\ fs[p] # Absent
    /\ IF AlreadyFiltered(fs[p].info, "face_filter")
       THEN StageAborts(p, "filter_faces", StageArgv(p))
       ELSE LET image_paths == ExistingImagePaths(fs[p].annotations, images)
                ids_to_remove ==
                    IdsOfFlaggedPaths(image_paths,
                        {i \in ImageIds : predictions[i] > 0})
            IN IF DetectorRaises(image_paths)
               THEN StageRaises(p, "filter_faces", StageArgv(p))
               ELSE StageRemoves(p, "filter_faces", StageArgv(p), "face_filter",
                                   ids_to_remove,
                                   [num_removed |-> Len(ids_to_remove),
                                    model |-> FACES_REPO,
                                    confidence_threshold |-> confidence_threshold])

----------------------------------------------------------------------------
(* merge.py: merge.                                                        *)

CurrentVersion == "1.0"
OtherVersion == "0.9"

\* datetime.strptime(date, "%Y-%m-%d"), as the day's ordinal in a calendar
\* of twelve months of 31 days, and strftime("%Y-%m-%d") back.
Strptime(date) == (date[1] * 12 + (date[2] - 1)) * 31 + (date[3] - 1)
Strftime(ordinal) ==
    <<ordinal \div 372, ((ordinal \div 31) % 12) + 1, (ordinal % 31) + 1>>

Min(S) == CHOOSE x \in S : \A y \in S : x =< y
Max(S) == CHOOSE x \in S : \A y \in S : x >= y

\* glob.glob(afp) for each argument, concatenated: an argument names one
\* path and matches it when the file exists.
RECURSIVE ExpandGlobs(_, _)
ExpandGlobs(files, annotation_filepaths) ==
    IF annotation_filepaths = <<>> THEN <<>>
    ELSE LET rest == ExpandGlobs(files, Front(annotation_filepaths))
             afp == Last(annotation_filepaths)
         IN IF files[afp] # Absent THEN Append(rest, afp) ELSE rest

\* sorted(ALL_ANNOTATION_FILEPATHS): the paths in lexicographic order.
AsGiven(filepaths) == filepaths
RECURSIVE Sorted(_)
Sorted(filepaths) ==
    IF filepaths = <<>> THEN <<>>
    ELSE LET r == Sorted(Front(filepaths))
             x == Last(filepaths)
             n == Cardinality({i \in DOMAIN r : r[i] =< x})
         IN SubSeq(r, 1, n) \o <<x>> \o SubSeq(r, n + 1, Len(r))

\* MERGED_ANNOTATIONS.extend(annotations["annotations"])
OnlyTheseAnnotations(MERGED_ANNOTATIONS, annotations) == annotations
Extend(MERGED_ANNOTATIONS, annotations) == MERGED_ANNOTATIONS \o annotations

\* The file's info makes merge refuse --delete-old: a version other than the
\* package's, or any filter marker.
RefusesVersionOnly(info) == info.version # CurrentVersion
RefusesDeleteOld(info) ==
    \/ info.version # CurrentVersion
    \/ \E key \in FilterKeys : key \in DOMAIN info.filters

\* The loop over the sorted paths: it gathers the annotations and the dates
\* of each file, and with --delete-old exits at the first file it refuses.
RECURSIVE MergeLoop(_, _, _)
MergeLoop(files, filepaths, delete_old) ==
    IF filepaths = <<>>
    THEN [exit |-> FALSE, MERGED_ANNOTATIONS |-> <<>>,
          all_start_dates |-> {}, all_end_dates |-> {}]
    ELSE LET before == MergeLoop(files, Front(filepaths), delete_old)
             annotations == files[Last(filepaths)]
         IN IF before.exit THEN before
            ELSE IF delete_old /\ RefusesDeleteOld(annotations.info)
            THEN [before EXCEPT !.exit = TRUE]
            ELSE [exit |-> FALSE,
                  MERGED_ANNOTATIONS |->
                      Extend(before.MERGED_ANNOTATIONS,
                             annotations.annotations),
                  all_start_dates |-> before.all_start_dates
                      \cup {Strptime(annotations.info.start_date)},
                  all_end_dates |-> before.all_end_dates
                      \cup {Strptime(annotations.info.end_date)}]

\* The info of the merged file.
LatestStartDate(all_start_dates, all_end_dates) ==
    [start_date |-> Strftime(Max(all_start_dates)),
     end_date |-> Strftime(Max(all_end_dates)),
     url |-> "https://redcaps.xyz",
     version |-> CurrentVersion,
     filters |-> NoFilters]
MergedInfo(all_start_dates, all_end_dates) ==
    [start_date |-> Strftime(Min(all_start_dates)),
     end_date |-> Strftime(Max(all_end_dates)),
     url |-> "https://redcaps.xyz",
     version |-> CurrentVersion,
     filters |-> NoFilters]

\* annotations_to_save, from what the loop gathered.
AnnotationsToSave(loop) ==
    [info |-> MergedInfo(loop.all_start_dates, loop.all_end_dates),
     annotations |-> SortedByUtc(DictOf(loop.MERGED_ANNOTATIONS))]

\* The loop that deletes the old files: os.unlink of a path already deleted
\* raises FileNotFoundError and leaves the loop where it is.
RECURSIVE UnlinkLoop(_, _, _)
UnlinkLoop(files, old_afps, save_to) ==
    IF old_afps = <<>> THEN [ok |-> TRUE, files |-> files]
    ELSE LET old_afp == Head(old_afps)
         IN IF old_afp = save_to
            THEN UnlinkLoop(files, Tail(old_afps), save_to)
            ELSE IF files[old_afp] = Absent
            THEN [ok |-> FALSE, files |-> files]
            ELSE UnlinkLoop([files EXCEPT ![old_afp] = Absent],
                            Tail(old_afps), save_to)

\* The command: how it ends and the files it leaves.
MergeOutcome(files, annotation_filepaths, save_to, delete_old) ==
    LET ALL_ANNOTATION_FILEPATHS == ExpandGlobs(files, annotation_filepaths)
        loop == MergeLoop(files, Sorted(ALL_ANNOTATION_FILEPATHS), delete_old)
        saved == [files EXCEPT ![save_to] = AnnotationsToSave(loop)]
        unlinked == UnlinkLoop(saved, ALL_ANNOTATION_FILEPATHS, save_to)
    IN IF Len(ALL_ANNOTATION_FILEPATHS) < 2
       THEN [outcome |-> "nothing", files |-> files]
       ELSE IF loop.exit
       THEN [outcome |-> "aborted", files |-> files]
       ELSE IF ~delete_old
       THEN [outcome |-> "saved", files |-> saved]
       ELSE [outcome |-> IF unlinked.ok THEN "saved" ELSE "FileNotFoundError",
             files |-> unlinked.files]

merge(annotation_filepaths, save_to, delete_old) ==
    LET m == MergeOutcome(fs, annotation_filepaths, save_to, delete_old)
    IN /\ fs' = m.files
       /\ last' = [cmd |-> "merge", outcome |-> m.outcome, called |-> FALSE,
                   argv |-> [paths |-> annotation_filepaths,
                             save_to |-> save_to, delete_old |-> delete_old],
                   pre |-> fs, preImages |-> images]
       /\ prev' = last
       /\ UNCHANGED <<images, nruns>>
       /\ UNCHANGED exceptStore

----------------------------------------------------------------------------
(* id_downloader.py: RedditIdDownloader.                                   *)

\* "size": "100", and the test len(_ids) >= 100.
PageCap == 100

\* The numbers of posts a second can hold: none, half a page, a page.
PostCounts == {0, 50, 100}

\* self.date, midnight of the day asked for, in ticks after the epoch, and
\* the seconds of that day and of the day after it.
DayLen == DaySec * TicksPerSec
Date == DayLen
Seconds == DaySec .. (3 * DaySec - 1)

\* The calls the interpreter lets be in progress at once; one more raises
\* RecursionError.
MaxDepth == 8

\* x / 2^depth
RECURSIVE Pow2(_)
Pow2(n) == IF n = 0 THEN 1 ELSE 2 * Pow2(n - 1)

Unhalved(time_window, depth) == time_window

\* timedelta(hours=time_window / 2^depth) in ticks: timedelta rounds to its
\* resolution, half to even. The division of the float itself is exact.
RoundHalfEven(time_window, depth) ==
    LET q == time_window \div Pow2(depth)
        r == time_window % Pow2(depth)
    IN IF 2 * r < Pow2(depth) THEN q
       ELSE IF 2 * r > Pow2(depth) THEN q + 1
       ELSE IF q % 2 = 0 THEN q ELSE q + 1

\* int(t.timestamp()): the whole seconds of a time after the epoch.
Timestamp(t) == t \div TicksPerSec

\* The identifiers of the posts created in second s, and of those created
\* from second a to second b, oldest first.
IdsAt(s) ==
    IF s \in DOMAIN upstream THEN [i \in 1..upstream[s] |-> <<s, i>>] ELSE <<>>

RECURSIVE IdsBetween(_, _)
IdsBetween(a, b) == IF a > b THEN <<>> ELSE IdsBetween(a, b - 1) \o IdsAt(b)

\* The endpoint's answer to a query: the posts created in the time range
\* asked for, cut to the page cap.
Page(after, before) ==
    LET all == IdsBetween(after, before)
    IN IF Len(all) > PageCap THEN SubSeq(all, 1, PageCap) ELSE all

\* A call of _download_worker(start_time, time_window / 2^depth) at its
\* request: the payload's after and before are computed on entry.
Call(start_time, depth) ==
    LET end_time == start_time
            + RoundHalfEven(download.time_window, depth) - TicksPerSec
    IN [start_time |-> start_time, depth |-> depth, pc |-> "request",
        after |-> Timestamp(start_time), before |-> Timestamp(end_time),
        failures |-> 0, left |-> <<0, 0>>, _ids |-> <<>>]

\* mid_time = start_time + timedelta(hours=time_window / 2)
MidTime(frame) ==
    frame.start_time + RoundHalfEven(download.time_window, frame.depth + 1)

Window(frame) == <<frame.after, frame.before>>

\* The call on top of the stack returns _ids. Its caller is download, which
\* extends its list and advances its start, or a call that waits for its
\* first half, which goes on to the second, or for its second, which
\* returns both in turn.
RECURSIVE Return(_, _, _, _)
Return(callers, _ids, dl, windows) ==
    IF callers = <<>>
    THEN [stack |-> <<>>,
          download |->
            [dl EXCEPT !.REDDIT_IDS = @ \o _ids,
                       !.start = @ + RoundHalfEven(dl.time_window, 0),
                       !.pc = "loop"],
          sent |-> windows]
    ELSE LET caller == Last(callers)
         IN IF caller.pc = "left"
            THEN LET second == Call(MidTime(caller), caller.depth + 1)
                 IN [stack |-> Append(
                        [callers EXCEPT ![Len(callers)] =
                            [caller EXCEPT !.pc = "right", !._ids = _ids]],
                        second),
                     download |-> dl,
                     sent |-> [windows EXCEPT !.splits = @ \cup
                                {[parent |-> Window(caller),
                                  left |-> caller.left,
                                  right |-> Window(second)]}]]
            ELSE Return(Front(callers), caller._ids \o _ids, dl, windows)

AsCollected(ids) == ids

\* list(set(REDDIT_IDS)): each identifier once, here in the order of its
\* first place in the list.
RECURSIVE Distinct(_)
Distinct(ids) ==
    IF Len(ids) =< 1 THEN ids
    ELSE LET half == Len(ids) \div 2
             front == Distinct(SubSeq(ids, 1, half))
             seen == {front[i] : i \in DOMAIN front}
             unseen(id) == id \notin seen
         IN front \o SelectSeq(Distinct(SubSeq(ids, half + 1, Len(ids))),
                               unseen)

\* download's loop: the next window's call, or the return of the list.
DownloadLoop ==
    /\ download.pc = "loop"
    /\ LET end == Date + DayLen - TicksPerSec
       IN IF download.start < end
          THEN LET call == Call(download.start, 0)
               IN /\ stack' = <<call>>
                  /\ download' = [download EXCEPT !.pc = "worker"]
                  /\ sent' = [sent EXCEPT !.top = Append(@, Window(call))]
          ELSE /\ download' =
                    [download EXCEPT !.pc = "done",
                                     !.returned = Distinct(download.REDDIT_IDS)]
               /\ UNCHANGED <<stack, sent>>
    /\ UNCHANGED upstream
    /\ UNCHANGED exceptHarvest

\* The request of the innermost call is answered with another status than
\* 200: the call sleeps and asks again.
RequestFails ==
    /\ download.pc = "worker"
    /\ Last(stack).pc = "request"
    /\ Last(stack).failures < MaxRetries
    /\ stack' = [stack EXCEPT ![Len(stack)].failures = @ + 1]
    /\ UNCHANGED <<upstream, download, sent>>
    /\ UNCHANGED exceptHarvest

\* requests.get raises, the connection having failed: nothing catches the
\* exception, which ends every call in progress and download itself.
RequestRaises ==
    /\ download.pc = "worker"
    /\ Last(stack).pc = "request"
    /\ stack' = <<>>
    /\ download' = [download EXCEPT !.pc = "raised"]
    /\ UNCHANGED <<upstream, sent>>
    /\ UNCHANGED exceptHarvest

\* The request of the innermost call is answered with status 200: a full
\* page makes the call split its window and call itself for the first
\* half, any other page is what the call returns. The count of failed
\* requests is of no use once the retry loop is left. A call deeper than
\* the interpreter allows raises RecursionError, which nothing catches.
RequestSucceeds ==
    /\ download.pc = "worker"
    /\ Last(stack).pc = "request"
    /\ LET frame == Last(stack)
           _ids == Page(frame.after, frame.before)
       IN IF Len(_ids) >= PageCap
          THEN IF Len(stack) >= MaxDepth
               THEN /\ stack' = <<>>
                    /\ download' = [download EXCEPT !.pc = "raised"]
                    /\ UNCHANGED sent
               ELSE LET first == Call(frame.start_time, frame.depth + 1)
                    IN /\ stack' = Append(
                             [stack EXCEPT ![Len(stack)] =
                                 [frame EXCEPT !.pc = "left",
                                               !.failures = 0,
                                               !.left = Window(first)]],
                             first)
                       /\ UNCHANGED <<download, sent>>
          ELSE LET r == Return(Front(stack), _ids, download, sent)
               IN /\ stack' = r.stack
                  /\ download' = r.download
                  /\ sent' = r.sent
    /\ UNCHANGED upstream
    /\ UNCHANGED exceptHarvest

----------------------------------------------------------------------------
(* info_downloader.py: strings. A string is the sequence of its            *)
(* characters.                                                             *)

\* s[i:].startswith(sub)
StartsAt(s, sub, i) ==
    /\ i + Len(sub) - 1 =< Len(s)
    /\ \A k \in 1..Len(sub) : s[i + k - 1] = sub[k]

\* sub in s
Contains(s, sub) == \E i \in 1..(Len(s) + 1) : StartsAt(s, sub, i)

\* s.replace(old, new): every occurrence, left to right, none overlapping.
RECURSIVE ReplaceFrom(_, _, _, _)
ReplaceFrom(s, old, new, i) ==
    IF i > Len(s) THEN <<>>
    ELSE IF StartsAt(s, old, i)
         THEN new \o ReplaceFrom(s, old, new, i + Len(old))
         ELSE <<s[i]>> \o ReplaceFrom(s, old, new, i + 1)

Replace(s, old, new) == ReplaceFrom(s, old, new, 1)

EndsWith(s, sub) ==
    Len(sub) =< Len(s) /\ StartsAt(s, sub, Len(s) - Len(sub) + 1)

\* s.split("/")[-1]
AfterLastSlash(s) ==
    LET slashes == {i \in DOMAIN s : s[i] = "/"}
    IN IF slashes = {} THEN s ELSE SubSeq(s, Max(slashes) + 1, Len(s))

\* The pieces of the URLs.
Https == <<"h", "t", "t", "p", "s", ":", "/", "/">>
Imgur == <<"i", "m", "g", "u", "r">>
DotCom == <<".", "c", "o", "m">>
ImgurCom == Imgur \o DotCom
MImgurCom == <<"m", ".">> \o ImgurCom
IImgur == <<"i", ".">> \o Imgur
IImgurCom == IImgur \o DotCom
RedditCom == <<"r", "e", "d", "d", "i", "t", ".", "c", "o", "m">>
Gallery == <<"g", "a", "l", "l", "e", "r", "y">>
SlashASlash == <<"/", "a", "/">>
DotJpg == <<".", "j", "p", "g">>
IReddIt == <<"h", "t", "t", "p", "s", ":", "/", "/", "i", ".", "r", "e", "d", "d", ".", "i", "t", "/">>
AlbumApi == <<"h", "t", "t", "p", "s", ":", "/", "/", "a", "p", "i", ".", "i", "m", "g", "u", "r", ".", "c", "o", "m", "/", "3", "/", "a", "l", "b", "u", "m", "/">>

\* "https://i.imgur.com/removed.png"
RemovedPng ==
    Https \o IImgurCom
        \o <<"/", "r", "e", "m", "o", "v", "e", "d", ".", "p", "n", "g">>

----------------------------------------------------------------------------
(* info_downloader.py: _fix_image_url.                                     *)

\* The thresholds of the remaining user and client requests.
UserFloor == 3
ClientFloor == 500

\* "i.imgur.com" in image_url
IsDirectLink(image_url) == Contains(image_url, IImgurCom)

\* image_url.replace("m.imgur.com", "imgur.com")
Desktop(image_url) == Replace(image_url, MImgurCom, ImgurCom)

\* not ("/a/" not in image_url and "gallery" not in image_url)
IsAlbum(image_url) ==
    Contains(image_url, SlashASlash) \/ Contains(image_url, Gallery)

\* direct_link.replace(".jpg", "") + ".jpg"
WithOneJpg(direct_link) == Replace(direct_link, DotJpg, <<>>) \o DotJpg

\* The direct link of a post URL.
PostLink(image_url) == WithOneJpg(Replace(image_url, Imgur, IImgur))

\* image_url.split("/")[-1]
AlbumId(image_url) == AfterLastSlash(image_url)

\* _fix_image_url up to the album request: the link it returns without
\* asking, or that it asks.
BeforeRequest(image_url) ==
    IF IsDirectLink(image_url)
    THEN [asked |-> FALSE, direct_link |-> image_url]
    ELSE IF ~IsAlbum(Desktop(image_url))
    THEN [asked |-> FALSE, direct_link |-> PostLink(Desktop(image_url))]
    ELSE [asked |-> TRUE, direct_link |-> <<>>]

\* What the album request can bring at time now: requests.get raises, or a
\* response comes whose body is no JSON, or holds no image, or holds the
\* link of the first image; a response has the rate limit headers, the
\* reset time in the past or in the future.
FirstImageLink == Https \o IImgurCom \o <<"/", "i", "M", "g", ".", "j", "p", "g">>

AlbumResponses(now) ==
    {[kind |-> "raised", user |-> UserFloor + 1, reset |-> now,
      client |-> ClientFloor + 1]}
    \cup [kind : {"malformed", "nodata", "ok"},
          user : {UserFloor, UserFloor + 1},
          reset : {now - 2, now + 2},
          client : {ClientFloor, ClientFloor + 1}]

WithoutHandler(response, now) ==
    [direct_link |-> IF response.kind = "ok" THEN FirstImageLink ELSE <<>>,
     exit |-> response.kind # "raised" /\ response.client =< ClientFloor,
     now |-> now]

\* The try block and its handler: the link is read first, then the user
\* limit is looked at (time.sleep raises ValueError for a negative time),
\* then the client limit (sys.exit raises SystemExit, which the handler of
\* Exception lets through).
AlbumResult(response, now) ==
    IF response.kind # "ok"
    THEN [direct_link |-> RemovedPng, exit |-> FALSE, now |-> now]
    ELSE LET sleeps == response.user =< UserFloor
             sleepdiff == response.reset - now + 1
         IN IF sleeps /\ sleepdiff < 0
            THEN [direct_link |-> RemovedPng, exit |-> FALSE, now |-> now]
            ELSE [direct_link |-> FirstImageLink,
                  exit |-> response.client =< ClientFloor,
                  now |-> IF sleeps THEN now + sleepdiff ELSE now]

\* No request made, and the clock when download is called.
NoResponse == [kind |-> "none", user |-> 0, reset |-> 0, client |-> 0]
Epoch == 2

\* _fix_image_url from the album request on, the request made at time now
\* and answered by response if it is made.
FixImageUrlFrom(before, response, now) ==
    IF ~before.asked
    THEN [direct_link |-> before.direct_link, asked |-> FALSE,
          exit |-> FALSE, now |-> now]
    ELSE LET r == AlbumResult(response, now)
         IN [direct_link |-> r.direct_link, asked |-> TRUE,
             exit |-> r.exit, now |-> r.now]

\* _fix_image_url(image_url)
FixImageUrl(image_url, response, now) ==
    FixImageUrlFrom(BeforeRequest(image_url), response, now)

----------------------------------------------------------------------------
(* info_downloader.py: _sanitize_caption.                                  *)

\* The characters of the captions. Two are not ASCII: a letter of another
\* script, which NFKD leaves as it is, and the full-width digit one, which
\* NFKD turns into the digit. The multiplication sign, not ASCII either,
\* is one of the separators of a resolution.
Letter == "U+65E5"
WideOne == "U+FF11"
Times == "U+00D7"
Alphabet == {"a", "A", "1", "x", " ", "(", ")", "@", Letter, WideOne}

Spaces == {" "}
Digits == {"1"}
Separators == {"x", Times, "*", ","}
Openers == {"[", "("}
Closers == {"]", ")"}
NonAscii == {Letter, WideOne, Times}
\* [_\d\w\.]
UserChars == {"a", "x", "u", "s", "r", "1", "_", ".", Letter}
Usr == <<"<", "u", "s", "r", ">">>

\* ftfy.fix_text(caption, normalization="NFKD").lower(), per character.
FixLower(c) == IF c = WideOne THEN "1" ELSE IF c = "A" THEN "a" ELSE c
FixTextLower(caption) == [i \in DOMAIN caption |-> FixLower(caption[i])]

\* The first place from i on whose character is not in class.
RECURSIVE Skip(_, _, _)
Skip(s, i, class) ==
    IF i =< Len(s) /\ s[i] \in class THEN Skip(s, i + 1, class) ELSE i

\* re.sub(r"[\[\(].*?[\]\)]", "", s): from an opening bracket to the first
\* closing bracket after it.
RECURSIVE RemoveBracketsFrom(_, _)
RemoveBracketsFrom(s, i) ==
    IF i > Len(s) THEN <<>>
    ELSE LET closers == {j \in (i + 1)..Len(s) : s[j] \in Closers}
         IN IF s[i] \in Openers /\ closers # {}
            THEN RemoveBracketsFrom(s, Min(closers) + 1)
            ELSE <<s[i]>> \o RemoveBracketsFrom(s, i + 1)

\* Where a match of \s*\d+\s*[x×\*\,]\s*\d+\s* that starts at i ends, or 0.
ResolutionEnd(s, i) ==
    LET a == Skip(s, i, Spaces)
        b == Skip(s, a, Digits)
        c == Skip(s, b, Spaces)
        d == Skip(s, c + 1, Spaces)
        e == Skip(s, d, Digits)
    IN IF b > a /\ c =< Len(s) /\ s[c] \in Separators /\ e > d
       THEN Skip(s, e, Spaces) ELSE 0

RECURSIVE RemoveResolutionsFrom(_, _)
RemoveResolutionsFrom(s, i) ==
    IF i > Len(s) THEN <<>>
    ELSE IF ResolutionEnd(s, i) # 0
         THEN RemoveResolutionsFrom(s, ResolutionEnd(s, i))
         ELSE <<s[i]>> \o RemoveResolutionsFrom(s, i + 1)

\* re.sub(r"\s+", " ", s).strip()
RECURSIVE CollapseFrom(_, _)
CollapseFrom(s, i) ==
    IF i > Len(s) THEN <<>>
    ELSE IF s[i] \in Spaces
         THEN <<" ">> \o CollapseFrom(s, Skip(s, i, Spaces))
         ELSE <<s[i]>> \o CollapseFrom(s, i + 1)

Strip(s) ==
    LET solid == {i \in DOMAIN s : s[i] \notin Spaces}
    IN IF solid = {} THEN <<>> ELSE SubSeq(s, Min(solid), Max(solid))

CollapseSpaces(s) == Strip(CollapseFrom(s, 1))

\* re.sub(r"\@[_\d\w\.]+", "<usr>", s)
RECURSIVE ReplaceUsersFrom(_, _)
ReplaceUsersFrom(s, i) ==
    IF i > Len(s) THEN <<>>
    ELSE IF s[i] = "@" /\ Skip(s, i + 1, UserChars) > i + 1
         THEN Usr \o ReplaceUsersFrom(s, Skip(s, i + 1, UserChars))
         ELSE <<s[i]>> \o ReplaceUsersFrom(s, i + 1)

\* s.encode("ascii", "ignore").decode("utf-8")
IsAscii(c) == c \notin NonAscii
AsciiOnly(s) == SelectSeq(s, IsAscii)

_sanitize_caption(caption) ==
    LET fixed == FixTextLower(caption)
        unbracketed == CollapseSpaces(RemoveBracketsFrom(fixed, 1))
        unresolved == CollapseSpaces(RemoveResolutionsFrom(unbracketed, 1))
    IN AsciiOnly(ReplaceUsersFrom(unresolved, 1))

\* A call of _sanitize_caption, on the caption first and then on what the
\* call before returned.
Sanitize ==
    /\ text.fn = "_sanitize_caption"
    /\ text.calls < 2
    /\ text' = [text EXCEPT !.calls = @ + 1,
                            !.before = text.out,
                            !.out = _sanitize_caption(text.out)]
    /\ UNCHANGED exceptText

\* The URLs of single posts of the secondary host: a scheme, one of its
\* hosts, the identifier of the post, and a suffix or none. Identifiers are
\* made of letters and digits.
Schemes == {Https, <<"h", "t", "t", "p", ":", "/", "/">>}
Hosts == {ImgurCom, MImgurCom, IImgurCom}
IdChars == {"a", "B", "7"}
PostIds ==
    (SeqsUpTo(IdChars, MaxIdLen) \ {<<>>}) \cup {<<"i", "m", "g", "u", "r", "7">>}
Suffixes == {<<>>, DotJpg}
PostUrlParts == [scheme : Schemes, host : Hosts, id : PostIds, suffix : Suffixes]
UrlOf(parts) == parts.scheme \o parts.host \o <<"/">> \o parts.id \o parts.suffix

\* A call of _fix_image_url on the URL of a single post; no request is
\* made for such a URL.
FixUrl ==
    /\ text.fn = "_fix_image_url"
    /\ text.calls = 0
    /\ ~BeforeRequest(text.out).asked
    /\ text' = [text EXCEPT
                    !.calls = 1,
                    !.before = text.out,
                    !.out = FixImageUrl(text.out, NoResponse, Epoch).direct_link]
    /\ UNCHANGED exceptText

----------------------------------------------------------------------------
(* info_downloader.py: RedditInfoDownloader.download.                      *)

\* _info.score < 2
MinScore == 2

\* The URLs of the posts: a gallery of the primary host, an album and a
\* gallery of the secondary host, the latter on its mobile host, a post of
\* the secondary host, direct links, and a direct link with an album path.
RedditGalleryUrl == Https \o <<"w", "w", "w", ".">> \o RedditCom \o <<"/">> \o Gallery \o <<"/", "a", "B", "c">>
ImgurAlbumUrl == Https \o ImgurCom \o SlashASlash \o <<"a", "B", "c">>
ImgurGalleryUrl == Https \o MImgurCom \o <<"/">> \o Gallery \o <<"/", "a", "B", "c">>
ImgurPostUrl == Https \o ImgurCom \o <<"/", "a", "B", "c">>
ImgurDirectUrl == Https \o IImgurCom \o <<"/", "a", "B", "c", ".", "j", "p", "g">>
ImgurDirectAlbumUrl == Https \o IImgurCom \o SlashASlash \o <<"a", "B", "c">>
RedditDirectUrl == IReddIt \o <<"a", "B", "c", ".", "j", "p", "g">>
PostUrls ==
    {RedditGalleryUrl, ImgurAlbumUrl, ImgurGalleryUrl, ImgurPostUrl,
     ImgurDirectUrl, ImgurDirectAlbumUrl, RedditDirectUrl}

\* gallery_data["items"][0]["media_id"]
MediaId == <<"m", "3", "d", "1", "a">>
Titles == {<<"A", " ", "(", "a", ")">>}

\* The posts reddit.info yields. gallery_data is missing, or has no item,
\* or has items; posts that are no gallery have none.
Posts ==
    {post \in [removed : BOOLEAN, over_18 : BOOLEAN,
               score : {MinScore - 1, MinScore}, url : PostUrls,
               gallery_data : {"none", "empty", "items"}, title : Titles] :
        post.url # RedditGalleryUrl => post.gallery_data = "none"}

NotRemoved(post) == ~post.removed

\* Neither of the two tests that skip a post holds.
Eligible(post) ==
    /\ ~post.removed
    /\ ~(post.over_18 \/ post.score < MinScore)

\* "reddit.com" in url and "gallery" in url
IsRedditGallery(url) == Contains(url, RedditCom) /\ Contains(url, Gallery)

\* The tests and conversions of each URL of a post, worked out once.
Routes ==
    [url \in PostUrls |->
        [reddit_gallery |-> IsRedditGallery(url),
         imgur |-> Contains(url, Imgur),
         before |-> BeforeRequest(url)]]

\* _sanitize_caption of each title, worked out once.
Captions == [title \in Titles |-> _sanitize_caption(title)]

\* The URL of the record of an eligible post and what getting it did; drop
\* says that the post is skipped for having no gallery item.
ResolvedUrl(post, response, now) ==
    LET kept == [direct_link |-> post.url, asked |-> FALSE, exit |-> FALSE,
                 now |-> now, drop |-> FALSE]
        route == Routes[post.url]
    IN IF route.reddit_gallery
       THEN IF post.gallery_data = "items"
            THEN [kept EXCEPT !.direct_link = IReddIt \o MediaId \o DotJpg]
            ELSE [kept EXCEPT !.drop = TRUE]
       ELSE IF route.imgur
       THEN LET f == FixImageUrlFrom(route.before, response, now)
            IN [direct_link |-> f.direct_link, asked |-> f.asked,
                exit |-> f.exit, now |-> f.now, drop |-> FALSE]
       ELSE kept

\* The record appended for the post of identifier id.
Annotation(id, post, url) ==
    [image_id |-> id, url |-> url, caption |-> Captions[post.title],
     raw_caption |-> post.title, score |-> post.score]

\* What the last turn of the loop was about: whether a post was yielded,
\* whether it passed the two tests, whether the album endpoint was asked and
\* the kind of its answer, and whether a record was appended.
NoCurrent ==
    [yielded |-> FALSE, eligible |-> FALSE, asked |-> FALSE, kind |-> "none",
     emitted |-> FALSE]

\* reddit.info yields no post for the next identifier.
InfoAbsent ==
    /\ resolve.pc = "running"
    /\ resolve.i < resolve.ids
    /\ resolve' = [resolve EXCEPT !.i = @ + 1, !.current = NoCurrent]
    /\ UNCHANGED imgur
    /\ UNCHANGED exceptResolve

\* One turn of the loop over the posts reddit.info yields: the post is
\* skipped, or its record is appended, or the album request ends the run.
\* The clock advances only while the resolver sleeps.
InfoNext(post, response) ==
    /\ resolve.pc = "running"
    /\ resolve.i < resolve.ids
    /\ LET id == resolve.i + 1
           at == imgur.now
           r == ResolvedUrl(post, response, at)
           asked == Eligible(post) /\ r.asked
           emitted == Eligible(post) /\ ~r.drop /\ ~r.exit
           answered == asked /\ response.kind # "raised"
       IN /\ resolve' =
                [resolve EXCEPT
                    !.i = id,
                    !.pc = IF asked /\ r.exit THEN "exited" ELSE "running",
                    !.ANNOTATIONS =
                        IF emitted
                        THEN Append(@, Annotation(id, post, r.direct_link))
                        ELSE @,
                    !.posts = IF emitted THEN Append(@, post) ELSE @,
                    !.current =
                        [yielded |-> TRUE, eligible |-> Eligible(post),
                         asked |-> asked,
                         kind |-> IF asked THEN response.kind ELSE "none",
                         emitted |-> emitted]]
          /\ imgur' =
                IF asked
                THEN [now |-> r.now,
                      requests |-> imgur.requests + 1,
                      at |-> at,
                      due |-> imgur.reset,
                      reset |-> IF answered /\ response.user =< UserFloor
                                THEN response.reset ELSE 0,
                      exhausted |->
                          \/ imgur.exhausted
                          \/ answered /\ response.client =< ClientFloor]
                ELSE imgur
    /\ UNCHANGED exceptResolve

\* The loop is over: download returns ANNOTATIONS.
InfoReturn ==
    /\ resolve.pc = "running"
    /\ resolve.i = resolve.ids
    /\ resolve' = [resolve EXCEPT !.pc = "done"]
    /\ UNCHANGED imgur
    /\ UNCHANGED exceptResolve

----------------------------------------------------------------------------
(* validate.py: validate.                                                  *)

\* The start of start_date and the last second of end_date, in seconds:
\* strptime, and for the end timedelta(hours=24, seconds=-1) added.
StartUtc(info) == Strptime(info.start_date) * DaySec
EndUtc(info) == Strptime(info.end_date) * DaySec + DaySec - 1

\* key in dicts, for a str key and a list of dicts: the key is compared
\* with each element, and a str equals no dict.
StrInDicts(key, dicts) == \E i \in DOMAIN dicts : FALSE

\* The identifiers validate warns about, or that the loop raises: the
\* loop compares a datetime with the int of created_utc.
CheckTimestamps(ANNOTATIONS) ==
    IF StrInDicts("annotations", ANNOTATIONS.annotations)
    THEN [warned |-> {},
          raised |-> ANNOTATIONS.annotations # <<>>]
    ELSE [warned |-> {}, raised |-> FALSE]

\* The filter stages validate reports as pending.
Pending(info) == FilterKeys \ DOMAIN info.filters

\* validate on the file at path p: it reads the file, prints, and writes
\* nothing.
validate(p) ==
    /\ ~printed.called
    /\ fs[p] # Absent
    /\ LET ANNOTATIONS == fs[p]
           check == CheckTimestamps(ANNOTATIONS)
       IN printed' =
            [called |-> TRUE, path |-> p, files |-> fs,
             pending |-> Pending(ANNOTATIONS.info),
             warned |-> check.warned,
             outcome |-> IF check.raised THEN "raised" ELSE "done"]
    /\ UNCHANGED storeVars
    /\ UNCHANGED exceptValidate

----------------------------------------------------------------------------
(* download.py: download_imgs.                                             *)

\* worker_args: the save paths of the annotations whose image file does
\* not exist when the list is built, in list order.
RECURSIVE WorkerArgs(_, _)
WorkerArgs(annotations, imgs) ==
    IF annotations = <<>> THEN <<>>
    ELSE LET rest == WorkerArgs(Front(annotations), imgs)
             image_savepath == ImagePath(Last(annotations).image_id)
         IN IF image_savepath \notin imgs
            THEN Append(rest, image_savepath)
            ELSE rest

\* [ann for ann, downloaded in zip(annotations, download_status) if
\* downloaded]: zip pairs the two lists position by position and stops at
\* the end of the shorter.
RECURSIVE ZipKeep(_, _)
ZipKeep(annotations, download_status) ==
    IF annotations = <<>> \/ download_status = <<>> THEN <<>>
    ELSE LET n == Min({Len(annotations), Len(download_status)})
             rest == ZipKeep(SubSeq(annotations, 1, n - 1),
                             SubSeq(download_status, 1, n - 1))
         IN IF download_status[n] THEN Append(rest, annotations[n]) ELSE rest

\* download_imgs on the file at path p. download_status is what the pool
\* workers return for the tasks, in the order of the tasks; a worker that
\* returns True has saved the image at its path.
download_imgs(p, update_annotations, download_status) ==
    /\ job.cmd = "none"
    /\ fs[p] # Absent
    /\ LET ANNOTATIONS == fs[p]
           worker_args == WorkerArgs(ANNOTATIONS.annotations, images)
       IN /\ DOMAIN download_status = DOMAIN worker_args
          /\ images' = images \cup
                {worker_args[i] : i \in {j \in DOMAIN worker_args :
                                            download_status[j]}}
          /\ fs' = IF update_annotations
                   THEN [fs EXCEPT ![p].annotations =
                            ZipKeep(ANNOTATIONS.annotations, download_status)]
                   ELSE fs
          /\ job' = [cmd |-> "download_imgs", path |-> p,
                     update_annotations |-> update_annotations,
                     worker_args |-> worker_args,
                     download_status |-> download_status,
                     pre |-> fs, preImages |-> images]
    /\ UNCHANGED <<last, prev, nruns>>
    /\ UNCHANGED <<harvestVars, resolveVars, textVars, validateVars, diskVars>>

----------------------------------------------------------------------------
(* download.py: download_anns.                                             *)

\* The info of a store no filter has marked.
PlainInfo(start_date, end_date) ==
    [start_date |-> start_date, end_date |-> end_date,
     url |-> "https://redcaps.xyz", version |-> CurrentVersion,
     filters |-> NoFilters]

DotJson == <<".", "j", "s", "o", "n">>

Subreddits == {<<"c", "a", "t", "s">>, <<"f", "o", "o", "d">>}
Months == {<<2020, 1>>, <<2020, 2>>, <<2021, 2>>, <<2020, 4>>, <<2020, 12>>}

\* --save-to as the user can give it: JSON paths and directory paths.
SaveTos == {<<"o", "u", "t", ".", "j", "s", "o", "n">>, <<"a", "n", "n", "s">>, <<"a", "n", "n", "s", "/">>, <<"d", "/", "x", ".", "j", "s", "o", "n">>}

\* The days of a month, as Calendar.itermonthdates gives them once the
\* dates of the neighbouring months are filtered out.
IsLeap(y) == y % 4 = 0 /\ (y % 100 # 0 \/ y % 400 = 0)
DaysIn(y, m) ==
    IF m = 2 THEN (IF IsLeap(y) THEN 29 ELSE 28)
    ELSE IF m \in {4, 6, 9, 11} THEN 30 ELSE 31
DatesPerMonth(yyyy_mm) ==
    [d \in 1..DaysIn(yyyy_mm[1], yyyy_mm[2]) |-> <<yyyy_mm[1], yyyy_mm[2], d>>]

\* strftime("%Y-%m"): the year in four digits, the month in two.
DigitChars == <<"0", "1", "2", "3", "4", "5", "6", "7", "8", "9">>
RECURSIVE ZeroPadded(_, _)
ZeroPadded(n, width) ==
    IF width = 0 THEN <<>>
    ELSE Append(ZeroPadded(n \div 10, width - 1), DigitChars[(n % 10) + 1])
MonthStr(yyyy_mm) == ZeroPadded(yyyy_mm[1], 4) \o <<"-">> \o ZeroPadded(yyyy_mm[2], 2)

\* os.path.join(a, b) for a relative b.
PathJoin(a, b) ==
    IF a = <<>> \/ Last(a) = "/" THEN a \o b ELSE a \o <<"/">> \o b

\* The file of a month inside a directory.
MonthFile(save_to, subreddit, yyyy_mm) ==
    PathJoin(save_to, subreddit \o <<"_">> \o MonthStr(yyyy_mm) \o DotJson)

Unbound == <<"unbound">>

\* download_anns, from the annotations the two downloaders returned to the
\* end. The name output is bound only inside the branch of a directory
\* path; using it unbound raises UnboundLocalError before any file is
\* opened.
download_anns(subreddit, yyyy_mm, save_to, ANNOTATIONS) ==
    /\ job.cmd = "none"
    /\ LET dates_per_month == DatesPerMonth(yyyy_mm)
           ANNOTATIONS_TO_SAVE ==
               [info |-> PlainInfo(dates_per_month[1], Last(dates_per_month)),
                annotations |-> ANNOTATIONS]
           output == IF ~EndsWith(save_to, DotJson)
                     THEN MonthFile(save_to, subreddit, yyyy_mm)
                     ELSE Unbound
       IN /\ fs' = IF output = Unbound THEN fs
                   ELSE [fs EXCEPT ![output] = ANNOTATIONS_TO_SAVE]
          /\ job' = [cmd |-> "download_anns", subreddit |-> subreddit,
                     yyyy_mm |-> yyyy_mm, save_to |-> save_to,
                     outcome |-> IF output = Unbound THEN "UnboundLocalError"
                                 ELSE "saved"]
    /\ UNCHANGED <<images, last, prev, nruns>>
    /\ UNCHANGED <<harvestVars, resolveVars, textVars, validateVars, diskVars>>

----------------------------------------------------------------------------
(* The specifications.                                                     *)

Dates == {<<2020, 1, 31>>, <<2020, 2, 1>>}

\* Up to as many path arguments as there are paths, in any order, repeated
\* or not.
ArgLists == SeqsUpTo(Paths, Len(PathNames))

FilterWordsStep ==
    \E p \in Paths :
        /\ fs[p] # Absent
        /\ \E hits \in SUBSET DOMAIN fs[p].annotations : filter_words(p, hits)

FilterNsfwStep ==
    \E p \in Paths : \E predictions \in [ImageIds -> Scores] :
        \E t \in Thresholds : filter_nsfw(p, predictions, t)

FilterFacesStep ==
    \E p \in Paths : \E predictions \in [ImageIds -> BoxCounts] :
        \E t \in Thresholds : filter_faces(p, predictions, t)

MergeStep ==
    \E annotation_filepaths \in ArgLists : \E save_to \in Paths :
        \E delete_old \in BOOLEAN :
            merge(annotation_filepaths, save_to, delete_old)

\* The harvester at rest, for the specifications of the other commands.
HarvesterIdle ==
    /\ upstream = [s \in Seconds |-> 0]
    /\ download = [time_window |-> DayLen, start |-> Date, REDDIT_IDS |-> <<>>,
                   pc |-> "done", returned |-> <<>>]
    /\ stack = <<>>
    /\ sent = [top |-> <<>>, splits |-> {}]

\* The resolver at rest.
ImgurUnused ==
    [now |-> Epoch, requests |-> 0, at |-> 0, due |-> 0, reset |-> 0,
     exhausted |-> FALSE]
ResolverIdle ==
    /\ resolve = [ids |-> 0, i |-> 0, ANNOTATIONS |-> <<>>, posts |-> <<>>,
                  pc |-> "idle", current |-> NoCurrent]
    /\ imgur = ImgurUnused

\* No string is being converted.
NoText ==
    text = [fn |-> "none", given |-> <<>>, calls |-> 0, before |-> <<>>,
            out |-> <<>>]

\* Every image file on disk can be read, and no download command has run.
AllReadable == corrupt = {}
NoJob == job = [cmd |-> "none"]

\* validate has not run.
NothingPrinted ==
    printed = [called |-> FALSE, path |-> 0, files |-> <<>>, pending |-> {},
               warned |-> {}, outcome |-> "none"]

\* No annotation file, for the specifications of the downloaders.
NoFiles ==
    /\ fs = [p \in Paths |-> Absent]
    /\ images = {}
    /\ last = NoCommand
    /\ prev = NoCommand
    /\ nruns = [k \in FilterKeys |-> 0]

\* SpecFilter: the filter stages run, in any order and any number of times,
\* on one store as download_anns leaves it (no marker), with any annotation
\* list and any of its images on disk.
InitFilter ==
    /\ \E annotations \in SeqsUpTo(AnnotationRecord, MaxAnns) :
         fs = [p \in Paths |->
                 IF p = 1
                 THEN [info |-> PlainInfo(<<2020, 1, 1>>, <<2020, 1, 31>>),
                       annotations |-> annotations]
                 ELSE Absent]
    /\ images \in SUBSET {ImagePath(i) : i \in ImageIds}
    /\ last = NoCommand
    /\ prev = NoCommand
    /\ nruns = [k \in FilterKeys |-> 0]
    /\ HarvesterIdle
    /\ ResolverIdle
    /\ NoText
    /\ NothingPrinted
    /\ corrupt \in SUBSET ImageIds
    /\ NoJob

NextFilter == FilterWordsStep \/ FilterNsfwStep \/ FilterFacesStep

SpecFilter == InitFilter /\ [][NextFilter]_vars

\* The annotation files that hold the records placed: placements[i] puts a
\* record at the end of the file at a path.
PlacedAnnotations(placements, p) ==
    LET at == SelectSeq(placements, LAMBDA x : x.path = p)
    IN [i \in DOMAIN at |-> at[i].record]

\* SpecMerge: one command, a merge or a filter stage, run on unfiltered
\* files of the package's version that hold any records, sorted or not,
\* repeated or not, with every image on disk.
InitMerge ==
    /\ \E placements \in
            SeqsUpTo([path : Paths, record : AnnotationRecord], MaxRecords) :
       \E present \in {Paths, Paths \ {Len(PathNames)}} :
         /\ \A i \in DOMAIN placements : placements[i].path \in present
         /\ fs = [p \in Paths |->
                    IF p \in present
                    THEN [info |-> PlainInfo(<<2020, 1, 1>>, <<2020, 1, 31>>),
                          annotations |-> PlacedAnnotations(placements, p)]
                    ELSE Absent]
    /\ images = {ImagePath(i) : i \in ImageIds}
    /\ last = NoCommand
    /\ prev = NoCommand
    /\ nruns = [k \in FilterKeys |-> 0]
    /\ HarvesterIdle
    /\ ResolverIdle
    /\ NoText
    /\ NothingPrinted
    /\ AllReadable
    /\ NoJob

FirstCommand == last.cmd = "none"

NextMerge ==
    \/ FirstCommand /\ MergeStep
    \/ FirstCommand /\ FilterWordsStep
    \/ FirstCommand /\ FilterNsfwStep
    \/ FirstCommand /\ FilterFacesStep

SpecMerge == InitMerge /\ [][NextMerge]_vars

\* The infos a file given to merge can carry: any two dates in order, the
\* package's version or another, and any set of filter markers.
MarkerOf(key) ==
    IF key = "word_filter" THEN [num_removed |-> 0, model |-> WORDS_REPO]
    ELSE [num_removed |-> 0,
          model |-> IF key = "nsfw_filter" THEN NSFW_REPO ELSE FACES_REPO,
          confidence_threshold |-> 90]

DateLE(d, e) ==
    \/ d[1] < e[1]
    \/ d[1] = e[1] /\ d[2] < e[2]
    \/ d[1] = e[1] /\ d[2] = e[2] /\ d[3] =< e[3]

Infos ==
    {[start_date |-> sd, end_date |-> ed, url |-> "https://redcaps.xyz",
      version |-> v, filters |-> [k \in keys |-> MarkerOf(k)]] :
        sd \in Dates, ed \in Dates, v \in {CurrentVersion, OtherVersion},
        keys \in SUBSET FilterKeys}

\* SpecMergeInfo: one merge of files that carry any infos: a.json and b.json
\* hold one record each, c.json does not exist.
InitMergeInfo ==
    /\ \E ia \in Infos : \E ib \in Infos :
         /\ DateLE(ia.start_date, ia.end_date)
         /\ DateLE(ib.start_date, ib.end_date)
         /\ fs = [p \in Paths |->
                    IF p = 1
                    THEN [info |-> ia,
                          annotations |->
                            <<[image_id |-> "p1", created_utc |-> 2]>>]
                    ELSE IF p = 2
                    THEN [info |-> ib,
                          annotations |->
                            <<[image_id |-> "p2", created_utc |-> 1]>>]
                    ELSE Absent]
    /\ images = {ImagePath(i) : i \in ImageIds}
    /\ last = NoCommand
    /\ prev = NoCommand
    /\ nruns = [k \in FilterKeys |-> 0]
    /\ HarvesterIdle
    /\ ResolverIdle
    /\ NoText
    /\ NothingPrinted
    /\ AllReadable
    /\ NoJob

NextMergeInfo == FirstCommand /\ MergeStep

SpecMergeInfo == InitMergeInfo /\ [][NextMergeInfo]_vars

\* SpecAssoc: two files are merged, and the result is merged with a third;
\* the three paths hold unfiltered files with any records, the first result
\* is saved at any path and the second over the first.
InitAssoc ==
    /\ \E placements \in
            SeqsUpTo([path : Paths, record : AnnotationRecord],
                     MaxAssocRecords) :
         fs = [p \in Paths |->
                 [info |-> PlainInfo(<<2020, 1, 1>>, <<2020, 1, 31>>),
                  annotations |-> PlacedAnnotations(placements, p)]]
    /\ images = {ImagePath(i) : i \in ImageIds}
    /\ last = NoCommand
    /\ prev = NoCommand
    /\ nruns = [k \in FilterKeys |-> 0]
    /\ HarvesterIdle
    /\ ResolverIdle
    /\ NoText
    /\ NothingPrinted
    /\ AllReadable
    /\ NoJob

MergeTwo ==
    /\ FirstCommand
    /\ \E a \in Paths : \E b \in Paths : \E save_to \in Paths :
         merge(<<a, b>>, save_to, FALSE)

MergeResultWithThird ==
    /\ last.cmd = "merge"
    /\ last.outcome = "saved"
    /\ prev.cmd = "none"
    /\ \E c \in Paths :
         merge(<<last.argv.save_to, c>>, last.argv.save_to, FALSE)

NextAssoc == MergeTwo \/ MergeResultWithThird

SpecAssoc == InitAssoc /\ [][NextAssoc]_vars

\* SpecHarvest: one call of download, for any time window of whole ticks up
\* to a day, against an upstream with posts in a few seconds of the day
\* asked for and of the days around it.
InitHarvest ==
    /\ upstream \in [Seconds -> PostCounts]
    /\ Cardinality({s \in Seconds : upstream[s] > 0}) =< MaxBusy
    /\ \E time_window \in 1..DayLen :
         download = [time_window |-> time_window, start |-> Date,
                     REDDIT_IDS |-> <<>>, pc |-> "loop", returned |-> <<>>]
    /\ stack = <<>>
    /\ sent = [top |-> <<>>, splits |-> {}]
    /\ NoFiles
    /\ ResolverIdle
    /\ NoText
    /\ NothingPrinted
    /\ AllReadable
    /\ NoJob

NextHarvest ==
    DownloadLoop \/ RequestFails \/ RequestRaises \/ RequestSucceeds

SpecHarvest == InitHarvest /\ [][NextHarvest]_vars

\* SpecAnswered: the same call against an upstream that answers every
\* request and in the end answers it with status 200. The retry loop asks
\* again as long as the status is not 200 and the download loop goes on as
\* long as it can, so both steps are taken when they stay possible.
\* The posts are those of the day asked for, and the time window is the
\* whole day, half of it, or a second and a tick.
InitAnswered ==
    /\ InitHarvest
    /\ \A s \in Seconds : upstream[s] > 0 => s < 2 * DaySec
    /\ download.time_window \in {DayLen, DayLen \div 2, TicksPerSec + 1}

NextAnswered == DownloadLoop \/ RequestFails \/ RequestSucceeds

SpecAnswered ==
    /\ InitAnswered
    /\ [][NextAnswered]_vars
    /\ WF_vars(DownloadLoop)
    /\ WF_vars(RequestSucceeds)

\* SpecResolve: one call of the resolver's download with up to MaxBatch
\* identifiers, for any posts and any answers of the album endpoint.
InitResolve ==
    /\ \E ids \in 0..MaxBatch :
         resolve = [ids |-> ids, i |-> 0, ANNOTATIONS |-> <<>>,
                    posts |-> <<>>, pc |-> "running", current |-> NoCurrent]
    /\ imgur = ImgurUnused
    /\ NoFiles
    /\ HarvesterIdle
    /\ NoText
    /\ NothingPrinted
    /\ AllReadable
    /\ NoJob

\* The album endpoint answers only the posts it is asked about.
Asks(post) ==
    /\ Eligible(post)
    /\ ~Routes[post.url].reddit_gallery
    /\ Routes[post.url].imgur
    /\ Routes[post.url].before.asked

InfoNextStep ==
    \E post \in Posts :
        IF Asks(post)
        THEN \E response \in AlbumResponses(imgur.now) :
                InfoNext(post, response)
        ELSE InfoNext(post, NoResponse)

NextResolve == InfoAbsent \/ InfoNextStep \/ InfoReturn

SpecResolve == InitResolve /\ [][NextResolve]_vars

\* SpecSanitize: _sanitize_caption called on any caption of up to
\* MaxCaption characters and then on its own result.
InitSanitize ==
    /\ \E caption \in SeqsUpTo(Alphabet, MaxCaption) :
         text = [fn |-> "_sanitize_caption", given |-> caption, calls |-> 0,
                 before |-> <<>>, out |-> caption]
    /\ NoFiles
    /\ HarvesterIdle
    /\ ResolverIdle
    /\ NothingPrinted
    /\ AllReadable
    /\ NoJob

NextSanitize == Sanitize

SpecSanitize == InitSanitize /\ [][NextSanitize]_vars

\* SpecFixUrl: _fix_image_url called on the URL of any single post.
InitFixUrl ==
    /\ \E parts \in PostUrlParts :
         text = [fn |-> "_fix_image_url", given |-> parts, calls |-> 0,
                 before |-> <<>>, out |-> UrlOf(parts)]
    /\ NoFiles
    /\ HarvesterIdle
    /\ ResolverIdle
    /\ NothingPrinted
    /\ AllReadable
    /\ NoJob

NextFixUrl == FixUrl

SpecFixUrl == InitFixUrl /\ [][NextFixUrl]_vars

\* SpecValidate: validate run on an annotation file whose records lie
\* around the two ends of the range its header states, filtered or not.
RangeEnds(info) ==
    {StartUtc(info) - 1, StartUtc(info), EndUtc(info), EndUtc(info) + 1}

InitValidate ==
    /\ \E start_date \in Dates, end_date \in Dates,
          filtered \in SUBSET FilterKeys :
         LET info == [PlainInfo(start_date, end_date) EXCEPT
                        !.filters = [k \in filtered |-> "marker"]]
         IN /\ Strptime(start_date) =< Strptime(end_date)
            /\ \E annotations \in
                    SeqsUpTo([image_id : ImageIds, created_utc : RangeEnds(info)],
                             MaxRecords) :
                 fs = [p \in Paths |->
                         IF p = 1
                         THEN [info |-> info, annotations |-> annotations]
                         ELSE Absent]
    /\ images = {}
    /\ last = NoCommand
    /\ prev = NoCommand
    /\ nruns = [k \in FilterKeys |-> 0]
    /\ HarvesterIdle
    /\ ResolverIdle
    /\ NoText
    /\ NothingPrinted
    /\ AllReadable
    /\ NoJob

NextValidate == \E p \in Paths : validate(p)

SpecValidate == InitValidate /\ [][NextValidate]_vars

\* SpecImages: download_imgs run once on an annotation file, some of its
\* images on disk already, each download ending well or not.
InitImages ==
    /\ \E annotations \in SeqsUpTo(AnnotationRecord, MaxAnns) :
         fs = [p \in Paths |->
                 IF p = 1
                 THEN [info |-> PlainInfo(<<2020, 1, 1>>, <<2020, 1, 31>>),
                       annotations |-> annotations]
                 ELSE Absent]
    /\ images \in SUBSET {ImagePath(i) : i \in ImageIds}
    /\ last = NoCommand
    /\ prev = NoCommand
    /\ nruns = [k \in FilterKeys |-> 0]
    /\ HarvesterIdle
    /\ ResolverIdle
    /\ NoText
    /\ NothingPrinted
    /\ AllReadable
    /\ NoJob

DownloadImgsStep ==
    \E p \in Paths, update_annotations \in BOOLEAN :
        \E download_status \in SeqsUpTo(BOOLEAN, MaxAnns) :
            download_imgs(p, update_annotations, download_status)

NextImages == DownloadImgsStep

SpecImages == InitImages /\ [][NextImages]_vars

\* SpecAnns: download_anns run once, for a subreddit, a month and a
\* --save-to; the files are named by their paths.
OutputPaths ==
    SaveTos \cup {MonthFile(save_to, subreddit, yyyy_mm) :
                    save_to \in SaveTos, subreddit \in Subreddits,
                    yyyy_mm \in Months}

InitAnns ==
    /\ fs = [p \in OutputPaths |-> Absent]
    /\ images = {}
    /\ last = NoCommand
    /\ prev = NoCommand
    /\ nruns = [k \in FilterKeys |-> 0]
    /\ HarvesterIdle
    /\ ResolverIdle
    /\ NoText
    /\ NothingPrinted
    /\ AllReadable
    /\ NoJob

DownloadAnnsStep ==
    \E subreddit \in Subreddits, yyyy_mm \in Months, save_to \in SaveTos :
        \E ANNOTATIONS \in SeqsUpTo(AnnotationRecord, MaxAnns - 1) :
            download_anns(subreddit, yyyy_mm, save_to, ANNOTATIONS)

NextAnns == DownloadAnnsStep

SpecAnns == InitAnns /\ [][NextAnns]_vars

----------------------------------------------------------------------------
(* What the claims speak of.                                               *)

FilterCommands == {"filter_words", "filter_nsfw", "filter_faces"}

KeyOf(cmd) ==
    IF cmd = "filter_words" THEN "word_filter"
    ELSE IF cmd = "filter_nsfw" THEN "nsfw_filter" ELSE "face_filter"

\* The last command wrote its annotation file.
Wrote ==
    \/ last.cmd \in FilterCommands /\ last.outcome = "saved"
    \/ last.cmd = "merge" /\ last.outcome \in {"saved", "FileNotFoundError"}

\* The file the last command wrote, and the files it was given as they were.
Written == fs[last.argv.save_to]

NonDecreasing(annotations) ==
    \A i, j \in DOMAIN annotations :
        i < j => annotations[i].created_utc =< annotations[j].created_utc

UniqueIds(annotations) ==
    \A i, j \in DOMAIN annotations :
        annotations[i].image_id = annotations[j].image_id => i = j

IdSet(annotations) == {annotations[i].image_id : i \in DOMAIN annotations}

\* The paths among the arguments of the last command that named a file.
Inputs == {p \in Paths : /\ \E i \in DOMAIN last.argv.paths :
                                last.argv.paths[i] = p
                         /\ last.pre[p] # Absent}

\* The last record with image_id id in annotations.
LastRecordOf(annotations, id) ==
    annotations[Max({i \in DOMAIN annotations : annotations[i].image_id = id})]

----------------------------------------------------------------------------
(* C1: the record list returned by remove, which the filter stage writes,  *)
(* and the record list written by merge are non-decreasing in created_utc  *)
(* and hold each image_id at most once, whatever the input lists were.     *)
C1_SortedAndUnique ==
    Wrote => /\ NonDecreasing(Written.annotations)
             /\ UniqueIds(Written.annotations)

\* A filter stage has written a non-empty list for a store whose list was
\* out of order and held an image_id twice.
C1_Witness ==
    /\ last.cmd \in FilterCommands
    /\ last.outcome = "saved"
    /\ Written.annotations # <<>>
    /\ ~NonDecreasing(last.pre[last.argv.save_to].annotations)
    /\ ~UniqueIds(last.pre[last.argv.save_to].annotations)

(* C2: a filter stage run on a store that carries the stage's marker ends  *)
(* before the blocklist or the detector is called, and leaves the          *)
(* annotation file, its info and every image file as they were.            *)
C2_MarkedStoreUntouched ==
    (/\ last.cmd \in FilterCommands
     /\ KeyOf(last.cmd) \in DOMAIN last.pre[last.argv.save_to].info.filters)
    => /\ last.outcome = "aborted"
       /\ ~last.called
       /\ fs = last.pre
       /\ images = last.preImages

\* The NSFW stage has been run again on a store it had filtered, which
\* still held records and image files.
C2_Witness ==
    /\ last.cmd = "filter_nsfw"
    /\ last.outcome = "aborted"
    /\ "nsfw_filter" \in DOMAIN Written.info.filters
    /\ Written.annotations # <<>>
    /\ images # {}

(* C3: once a stage's marker is in the persisted info, every later filter  *)
(* stage run leaves it there with the same content, and no stage rewrites  *)
(* the store more than once.                                               *)
C3_MarkersStay ==
    [][/\ \A p \in Paths :
            fs[p] # Absent =>
                \A k \in DOMAIN fs[p].info.filters :
                    /\ fs'[p] # Absent
                    /\ k \in DOMAIN fs'[p].info.filters
                    /\ fs'[p].info.filters[k] = fs[p].info.filters[k]
       /\ \A k \in FilterKeys : nruns'[k] =< 1]_vars

\* All three stages have run, two of them removing a record, and a stage
\* has been run again since.
C3_Witness ==
    /\ DOMAIN fs[1].info.filters = FilterKeys
    /\ \A k \in FilterKeys : nruns[k] = 1
    /\ fs[1].info.filters["word_filter"].num_removed = 1
    /\ fs[1].info.filters["face_filter"].num_removed = 1
    /\ last.outcome = "aborted"

(* C4: merge writes one record per image_id that occurs in any input, and  *)
(* for each image_id the record of the input file whose path sorts last    *)
(* among those that hold it, in whatever order the paths were given.       *)
C4_LastPathWins ==
    (last.cmd = "merge" /\ Wrote) =>
        LET ids == UNION {IdSet(last.pre[p].annotations) : p \in Inputs}
            out == Written.annotations
        IN /\ Len(out) = Cardinality(ids)
           /\ IdSet(out) = ids
           /\ \A i \in DOMAIN out :
                LET from == Max({p \in Inputs :
                        out[i].image_id \in IdSet(last.pre[p].annotations)})
                IN out[i] = LastRecordOf(last.pre[from].annotations,
                                         out[i].image_id)

\* A merge was given b.json before a.json, both holding one image_id with
\* different records.
C4_Witness ==
    /\ last.cmd = "merge"
    /\ last.outcome = "saved"
    /\ Len(last.argv.paths) >= 2
    /\ last.argv.paths[1] = 2
    /\ last.argv.paths[2] = 1
    /\ \E i \in DOMAIN last.pre[1].annotations :
       \E j \in DOMAIN last.pre[2].annotations :
          /\ last.pre[1].annotations[i].image_id
                = last.pre[2].annotations[j].image_id
          /\ last.pre[1].annotations[i] # last.pre[2].annotations[j]

(* C5: the info merge writes has the earliest start_date and the latest    *)
(* end_date of its inputs and none of the three filter markers.            *)
C5_MergedInfo ==
    (last.cmd = "merge" /\ Wrote) =>
        LET info == Written.info
        IN /\ \E p \in Inputs : info.start_date = last.pre[p].info.start_date
           /\ \A p \in Inputs :
                DateLE(info.start_date, last.pre[p].info.start_date)
           /\ \E p \in Inputs : info.end_date = last.pre[p].info.end_date
           /\ \A p \in Inputs :
                DateLE(last.pre[p].info.end_date, info.end_date)
           /\ DOMAIN info.filters \cap FilterKeys = {}

\* A merge of two files with different start dates and end dates, both
\* filtered, has written its file.
C5_Witness ==
    /\ last.cmd = "merge"
    /\ last.outcome = "saved"
    /\ Inputs = {1, 2}
    /\ last.pre[1].info.start_date # last.pre[2].info.start_date
    /\ last.pre[1].info.end_date # last.pre[2].info.end_date
    /\ DOMAIN last.pre[1].info.filters = FilterKeys
    /\ DOMAIN last.pre[2].info.filters # {}

(* C6: merge run with --delete-old on inputs one of which carries a filter *)
(* marker or another version writes no file and deletes none, wherever the *)
(* file is in the sorted order.                                            *)
C6_RefusalLeavesFiles ==
    (/\ last.cmd = "merge"
     /\ last.argv.delete_old
     /\ \E p \in Inputs :
            \/ last.pre[p].info.version # CurrentVersion
            \/ DOMAIN last.pre[p].info.filters # {})
    => /\ last.outcome \in {"aborted", "nothing"}
       /\ fs = last.pre

\* The merge was refused for the file that sorts last, after a first file
\* it accepts had been read.
C6_Witness ==
    /\ last.cmd = "merge"
    /\ last.argv.delete_old
    /\ last.outcome = "aborted"
    /\ Inputs = {1, 2}
    /\ last.argv.save_to = 1
    /\ last.pre[1].info.version = CurrentVersion
    /\ DOMAIN last.pre[1].info.filters = {}
    /\ last.pre[2].info.version = CurrentVersion
    /\ DOMAIN last.pre[2].info.filters = {"face_filter"}

(* C7: merging A and B and then the result with C gives the image_id set   *)
(* that one merge of A, B and C gives, at whatever paths the three stores  *)
(* lie and the results are saved (C being the store as it was: the first   *)
(* result is not saved over it).                                           *)
C7_MergeAssociative ==
    (/\ prev.cmd = "merge" /\ prev.outcome = "saved"
     /\ last.cmd = "merge" /\ last.outcome = "saved"
     /\ Len(last.argv.paths) = 2
     /\ last.argv.paths[1] = prev.argv.save_to
     /\ last.argv.paths[2] # prev.argv.save_to)
    => LET direct ==
               MergeOutcome(prev.pre,
                            prev.argv.paths \o <<last.argv.paths[2]>>,
                            last.argv.save_to, FALSE)
       IN /\ direct.outcome = "saved"
          /\ IdSet(Written.annotations)
                = IdSet(direct.files[last.argv.save_to].annotations)

\* Three stores at three paths, each with an image_id of its own or shared
\* with another, have been merged in two steps.
C7_Witness ==
    /\ prev.cmd = "merge" /\ prev.outcome = "saved"
    /\ last.cmd = "merge" /\ last.outcome = "saved"
    /\ prev.argv.paths = <<3, 1>>
    /\ prev.argv.save_to = 3
    /\ last.argv.paths = <<3, 2>>
    /\ \A p \in Paths : prev.pre[p].annotations # <<>>
    /\ IdSet(prev.pre[2].annotations) # IdSet(prev.pre[1].annotations)
    /\ IdSet(Written.annotations) = ImageIds

----------------------------------------------------------------------------
(* The harvester's claims.                                                 *)

\* The seconds of the day asked for, 00:00:00 to 23:59:59.
DayFirst == Timestamp(Date)
DayLast == DayFirst + DaySec - 1
DaySeconds == DayFirst..DayLast

\* The seconds a query with these after and before values asks for.
Range(window) == window[1]..window[2]

Returned == {download.returned[i] : i \in DOMAIN download.returned}

(* C8: when download returns, against an upstream that answers each query  *)
(* with the posts of the queried range cut to the page cap, the returned   *)
(* identifiers include every post created on the day asked for.            *)
C8_HarvestComplete ==
    download.pc = "done" =>
        \A s \in DaySeconds : \A i \in 1..upstream[s] : <<s, i>> \in Returned

(* C9: at every split, at every depth, the ranges sent in the two          *)
(* sub-queries together cover exactly the range of the parent query: no    *)
(* second of the parent is in neither, and none is in both.                *)
C9_SplitCoversParent ==
    \A split \in sent.splits :
        /\ Range(split.left) \cup Range(split.right) = Range(split.parent)
        /\ Range(split.left) \cap Range(split.right) = {}

(* C10: for every time window up to 24 hours, the top-level windows        *)
(* queried for a day are consecutive and partition the day: every query's  *)
(* range lies inside the day and, when download returns, each second of    *)
(* the day was in one of them.                                             *)
C10_WindowsPartitionDay ==
    /\ \A i \in DOMAIN sent.top :
            Range(sent.top[i]) \subseteq DaySeconds
    /\ \A i, j \in DOMAIN sent.top :
            i # j => Range(sent.top[i]) \cap Range(sent.top[j]) = {}
    /\ download.pc = "done" =>
            UNION {Range(sent.top[i]) : i \in DOMAIN sent.top} = DaySeconds

(* C11: for each window query, a failed request (a network failure or a    *)
(* response with another status than 200) is followed by the same request  *)
(* again: the call neither splits nor returns before a 200, and no failure *)
(* reaches the caller of download as an error.                             *)
C11_FailuresRetried ==
    /\ download.pc # "raised"
    /\ \A i \in DOMAIN stack :
            stack[i].failures > 0 =>
                /\ i = Len(stack)
                /\ stack[i].pc = "request"
                /\ download.pc = "worker"

----------------------------------------------------------------------------
(* The resolver.                                                           *)

\* The records so far and the posts they were made from.
Records == resolve.ANNOTATIONS
Sources == resolve.posts

C14_ClientQuotaAborts == imgur.exhausted => resolve.pc = "exited"

\* C15: after an album response whose remaining per-user quota is at most
\* 3, the next album request is made no earlier than the reset time that
\* response states.
C15_WaitsForReset == imgur.requests > 0 => imgur.at >= imgur.due

\* C16: when the album call for a post fails (the request raises, the body
\* is no JSON, or it holds no image data), the post's record is appended
\* with the placeholder as its url and the run goes on with the next
\* identifier.
C16_FailureGivesPlaceholder ==
    (resolve.current.asked
        /\ resolve.current.kind \in {"raised", "malformed", "nodata"})
    => /\ resolve.current.emitted
       /\ Records # <<>>
       /\ Records[Len(Records)].image_id = resolve.i
       /\ Records[Len(Records)].url = RemovedPng
       /\ resolve.pc \in {"running", "done"}

\* The album call failed for the first of two posts, and the second got
\* its record too.
C16_Witness ==
    /\ resolve.pc = "done"
    /\ Len(Records) = 2
    /\ Records[1].url = RemovedPng
    /\ Records[2].url = FirstImageLink
    /\ Sources[1].url = ImgurGalleryUrl

\* C17: no record has a gallery or album URL: a gallery post of the
\* primary host has the static URL of its first item or no record, and a
\* URL of the secondary host with an album or gallery path segment is
\* replaced by a direct link or the placeholder.
C17_NoAlbumUrl ==
    \A k \in DOMAIN Records :
        /\ ~IsRedditGallery(Records[k].url)
        /\ ~IsAlbum(Records[k].url)
        /\ IsRedditGallery(Sources[k].url)
            => Records[k].url = IReddIt \o MediaId \o DotJpg
        /\ (Contains(Sources[k].url, Imgur) /\ IsAlbum(Sources[k].url))
            => Records[k].url \in {FirstImageLink, RemovedPng}

----------------------------------------------------------------------------
(* The conversions of strings.                                             *)

\* C18: _sanitize_caption is idempotent: called on its own result it
\* returns that result.
C18_SanitizeIdempotent ==
    (text.fn = "_sanitize_caption" /\ text.calls = 2) => text.out = text.before

\* C19: _fix_image_url returns a direct-link URL unchanged, and turns the
\* URL of a post on the plain or the mobile host, with or without a .jpg
\* suffix, into the URL of the same post on the direct-link host with one
\* .jpg suffix, the same for the mobile and the plain form.
C19_PostUrlNormalized ==
    (text.fn = "_fix_image_url" /\ text.calls = 1) =>
        IF text.given.host = IImgurCom
        THEN text.out = UrlOf(text.given)
        ELSE text.out =
                text.given.scheme \o IImgurCom \o <<"/">> \o text.given.id
                    \o DotJpg

----------------------------------------------------------------------------
(* validate.                                                               *)

\* C20: validate ends having warned about exactly the records of the file
\* whose created_utc lies before the first second of start_date or after
\* the last second of end_date, and the files are as they were.
C20_WarnsOutOfRange ==
    printed.called =>
        LET store == printed.files[printed.path]
        IN /\ printed.outcome = "done"
           /\ fs = printed.files
           /\ \A i \in DOMAIN store.annotations :
                LET ann == store.annotations[i]
                IN (ann.image_id \in printed.warned)
                    <=> ~(/\ StartUtc(store.info) =< ann.created_utc
                          /\ ann.created_utc =< EndUtc(store.info))

----------------------------------------------------------------------------
(* The filter stages, once more.                                           *)

\* C21: when the removal fails for an id that is not, or no longer, in the
\* map, no image file has been deleted and the annotation file is as it
\* was.
C21_FailedRemoveTouchesNothing ==
    last.outcome = "KeyError" =>
        /\ images = last.preImages
        /\ fs = last.pre

\* The records of the store the last stage read whose image file was
\* missing or could not be read.
Unseen ==
    LET store == last.pre[last.argv.save_to]
    IN {store.annotations[i] : i \in
            {j \in DOMAIN store.annotations :
                \/ ImagePath(store.annotations[j].image_id) \notin last.preImages
                \/ store.annotations[j].image_id \in corrupt}}

\* C22: a detector stage run on a store without its marker completes and
\* writes the marker however many records have a missing or unreadable
\* image, and each of those records is still in the store afterwards.
C22_UnseenRecordsStay ==
    (last.cmd \in {"filter_nsfw", "filter_faces"} /\ last.outcome # "aborted")
    => /\ last.outcome = "saved"
       /\ \A r \in Unseen :
            \E i \in DOMAIN Written.annotations : Written.annotations[i] = r

----------------------------------------------------------------------------
(* download_imgs.                                                          *)

\* The annotations download_imgs read, and for the annotation at position
\* i the position of its task, or 0 when its image was on disk already.
Read == job.pre[job.path].annotations
TaskOf(i) ==
    IF ImagePath(Read[i].image_id) \in job.preImages THEN 0
    ELSE Cardinality({j \in 1..i : ImagePath(Read[j].image_id) \notin job.preImages})

\* The annotation at position i has its image: on disk before, or saved by
\* its own task.
NotFailed(i) == TaskOf(i) = 0 \/ job.download_status[TaskOf(i)]

RECURSIVE KeptUpTo(_)
KeptUpTo(n) ==
    IF n = 0 THEN <<>>
    ELSE IF NotFailed(n) THEN Append(KeptUpTo(n - 1), Read[n]) ELSE KeptUpTo(n - 1)

\* C23: with --update-annotations the file download_imgs rewrites holds, in
\* their order, exactly the annotations whose image was on disk already or
\* was downloaded in this run.
C23_KeepsDownloaded ==
    (job.cmd = "download_imgs" /\ job.update_annotations)
    => fs[job.path].annotations = KeptUpTo(Len(Read))


\* C27: the destination paths of the download tasks submitted in one run of
\* download_imgs are pairwise distinct, so no two pool workers write the
\* same image file.
C27_DistinctDestinations ==
    job.cmd = "download_imgs"
    => \A i, j \in DOMAIN job.worker_args :
          job.worker_args[i] = job.worker_args[j] => i = j

----------------------------------------------------------------------------
(* download_anns.                                                          *)

\* Where the store of the run is due: the JSON path itself, or the file of
\* the month inside the directory.
DuePath ==
    IF EndsWith(job.save_to, DotJson) THEN job.save_to
    ELSE MonthFile(job.save_to, job.subreddit, job.yyyy_mm)

\* The day after: the first of the next month exactly when no later day of
\* the month exists.
IsLastDay(date) ==
    /\ date[1] = job.yyyy_mm[1]
    /\ date[2] = job.yyyy_mm[2]
    /\ date[3] \in 28..31
    /\ \/ date[3] = 31
       \/ date[3] = 30 /\ date[2] \in {4, 6, 9, 11}
       \/ date[3] = 29 /\ date[2] = 2 /\ IsLeap(date[1])
       \/ date[3] = 28 /\ date[2] = 2 /\ ~IsLeap(date[1])

\* C24: download_anns writes the store to the JSON path it is given, or to
\* <dir>/<subreddit>_<YYYY-MM>.json for a directory, and completes, with
\* start_date and end_date the first and last day of the month.
C24_BothSaveToForms ==
    job.cmd = "download_anns"
    => /\ job.outcome = "saved"
       /\ fs[DuePath] # Absent
       /\ fs[DuePath].info.start_date = <<job.yyyy_mm[1], job.yyyy_mm[2], 1>>
       /\ IsLastDay(fs[DuePath].info.end_date)

----------------------------------------------------------------------------
(* Termination of the harvest.                                             *)

\* C25: against an upstream that in the end answers every request with
\* status 200, download returns, whatever the posts of the day and the
\* seconds they fall in.
C25_HarvestTerminates == <>(download.pc = "done")

\* download has returned after a call that received a full page and split
\* its window.
C25_Witness ==
    /\ download.pc = "done"
    /\ sent.splits # {}
    /\ \E s \in Seconds : upstream[s] >= PageCap

----------------------------------------------------------------------------
(* The order of the filter stages.                                         *)

\* The marker a stage is to find before it acts.
MarkerBefore(cmd) ==
    IF cmd = "filter_nsfw" THEN "word_filter" ELSE "nsfw_filter"

\* C26: the stages take effect in the order lexical, NSFW, face: the NSFW
\* stage writes a store only if it held the word_filter marker, and the
\* face stage only if it held the nsfw_filter marker.
C26_StagesInOrder ==
    (last.cmd \in {"filter_nsfw", "filter_faces"} /\ last.outcome = "saved")
    => MarkerBefore(last.cmd) \in DOMAIN last.pre[last.argv.save_to].info.filters


\* C28: the num_removed a completed stage writes in its marker is the number
\* of records the store held before the stage less the number it holds
\* after.
C28_NumRemovedIsTheDifference ==
    (last.cmd \in FilterCommands /\ last.outcome = "saved")
    => Written.info.filters[KeyOf(last.cmd)].num_removed
         = Len(last.pre[last.argv.save_to].annotations) - Len(Written.annotations)

----------------------------------------------------------------------------
(* The album call and the rate-limit headers.                              *)

\* C29: when the album call for a post is answered with a first image link
\* and the run is not aborted for client quota, the post's record has that
\* link as its url, whatever the rate-limit headers say.
C29_LinkKeptWhateverTheHeaders ==
    (/\ resolve.current.asked
     /\ resolve.current.kind = "ok"
     /\ resolve.current.emitted
     /\ resolve.pc # "exited")
    => /\ Records # <<>>
       /\ Records[Len(Records)].image_id = resolve.i
       /\ Records[Len(Records)].url = FirstImageLink

----------------------------------------------------------------------------
(* merge with --delete-old.                                                *)

\* The merge went through its reading loop: two paths or more were
\* matched, and no input was refused for its version or a filter marker.
MergedWithDeleteOld ==
    /\ last.cmd = "merge"
    /\ last.argv.delete_old
    /\ last.outcome \notin {"nothing", "aborted"}

\* C30: a merge with --delete-old of unfiltered inputs of the current
\* version completes with the merged file at the output path and every
\* input file at another path deleted, also when several arguments match
\* the same file.
C30_DeleteOldCompletes ==
    MergedWithDeleteOld
    => /\ last.outcome = "saved"
       /\ fs[last.argv.save_to] # Absent
       /\ \A p \in Inputs : p # last.argv.save_to => fs[p] = Absent

============================================================================
